---------------------------- MODULE Spec2Model ----------------------------
(***************************************************************************)
(* A model of micropython-ota-updater (src/main/ota_updater.py).           *)
(*                                                                         *)
(* Spec      the staged-update state machine of OTAUpdater over a model of *)
(*           the flash filesystem, with power loss between any two steps.  *)
(* SpecRm    rmtree on directory trees of every shape up to a depth, with  *)
(*           the fairness of a call that keeps running.                    *)
(* SpecHttp  HttpClient.request line by line, followed by calls on the     *)
(*           Response it returns.                                          *)
(* SpecFetch get_latest_version, download_all_files and download_file as   *)
(*           sequences of such exchanges, with the sockets they leave open.*)
(*                                                                         *)
(* Python strings (paths, versions, file bodies) are sequences of tokens.  *)
(* A token is a run of characters that is never split by the code; the     *)
(* tokens are chosen so that none overlaps main_dir + '/' partially, so    *)
(* str.replace on characters and Replace on tokens agree.                  *)
(***************************************************************************)
EXTENDS Naturals, Sequences, FiniteSets, TLC

VARIABLES
    fs,        \* flash storage: path -> [dir, data]
    remote,    \* the release published on the host: directory -> listing
    pc,        \* position of the device's single flow of control
    cur,       \* download_updates_if_available: current_version
    latest,    \* download_updates_if_available: latest_version
    dstack,    \* download_all_files: the recursion's frames
    rstack,    \* rmtree: the recursion's frames
    op,        \* the handler that runs or ran last
    ret,       \* how that handler ended
    pre,       \* storage when that handler was called
    live0,     \* the live tree the device started with
    done,      \* remote entries whose write under next/ has been issued
    fetched,   \* remote file -> body received for it in this staging run
    staged,    \* the last staging run that returned True
    nerr,      \* error answers (4xx, 5xx) the host has given to file fetches
    boot,      \* what the last restart came upon
    socks,     \* sockets that earlier exchanges opened and left open
    h          \* HttpClient.request and Response: one exchange

vars == <<fs, remote, pc, cur, latest, dstack, rstack, op, ret, pre, live0,
          done, fetched, staged, nerr, boot, socks, h>>

otaVars == <<fs, remote, pc, cur, latest, dstack, rstack, op, ret, pre,
             live0, done, fetched, staged, nerr, boot, socks>>

-----------------------------------------------------------------------------
(* Strings *)

NoneVal == <<"<None>">>

Slash == <<"/">>

\* ord() of the characters that occur in version tags
CodePoint(c) ==
    CASE c = "." -> 46
      [] c = "0" -> 48
      [] c = "1" -> 49
      [] c = "2" -> 50
      [] c = "v" -> 118
      [] OTHER -> 0

\* a > b on str, as the interpreter computes it: the first position where
\* the two differ decides, and a proper prefix is the smaller
RECURSIVE StrGT(_, _)
StrGT(a, b) ==
    IF a = <<>> THEN FALSE
    ELSE IF b = <<>> THEN TRUE
    ELSE IF Head(a) # Head(b) THEN CodePoint(Head(a)) > CodePoint(Head(b))
    ELSE StrGT(Tail(a), Tail(b))

StartsWith(s, p) ==
    /\ Len(p) <= Len(s)
    /\ SubSeq(s, 1, Len(p)) = p

\* s.replace(old, ''): every non-overlapping occurrence, left to right
RECURSIVE Replace(_, _)
Replace(s, old) ==
    IF s = <<>> THEN <<>>
    ELSE IF StartsWith(s, old) THEN Replace(SubSeq(s, Len(old) + 1, Len(s)), old)
    ELSE <<Head(s)>> \o Replace(Tail(s), old)

-----------------------------------------------------------------------------
(* The filesystem: the os primitives the updater calls *)

Dir == [dir |-> TRUE, data |-> <<>>]

File(d) == [dir |-> FALSE, data |-> d]

LastSlash(p) ==
    LET S == {i \in 1..Len(p) : p[i] = "/"}
    IN  IF S = {} THEN 0 ELSE CHOOSE i \in S : \A j \in S : j <= i

Parent(p) == IF LastSlash(p) = 0 THEN <<>> ELSE SubSeq(p, 1, LastSlash(p) - 1)

Name(p) == SubSeq(p, LastSlash(p) + 1, Len(p))

\* os.stat(path) succeeds
path_exists(f, p) == p \in DOMAIN f

IsDir(f, p) == p \in DOMAIN f /\ f[p].dir

IsFile(f, p) == p \in DOMAIN f /\ ~f[p].dir

\* the working directory <<>> always exists
ParentOK(f, p) == Parent(p) = <<>> \/ IsDir(f, Parent(p))

Children(f, d) == {q \in DOMAIN f : Parent(q) = d}

listdir(f, d) == {Name(q) : q \in Children(f, d)}

Under(q, d) == q = d \/ StartsWith(q, d \o Slash)

Put(f, p, v) == [q \in (DOMAIN f) \cup {p} |-> IF q = p THEN v ELSE f[q]]

Drop(f, p) == [q \in (DOMAIN f) \ {p} |-> f[q]]

mkdirOK(f, p) == ~path_exists(f, p) /\ ParentOK(f, p)

mkdir(f, p) == Put(f, p, Dir)

\* open(path, 'w') creates the file, or truncates the one that is there
openwOK(f, p) == ParentOK(f, p) /\ ~IsDir(f, p)

openw(f, p) == Put(f, p, File(<<>>))

write(f, p, d) == Put(f, p, File(d))

\* os.rename fails when the source is missing or the target is there
renameOK(f, a, b) == path_exists(f, a) /\ ~path_exists(f, b) /\ ParentOK(f, b)

rename(f, a, b) ==
    LET moved(q) == IF Under(q, a) THEN b \o SubSeq(q, Len(a) + 1, Len(q)) ELSE q
        D == {moved(q) : q \in DOMAIN f}
    IN  [q \in D |-> f[CHOOSE r \in DOMAIN f : moved(r) = q]]

\* the tree below d, with d itself, as relative path -> node
Subtree(f, d) ==
    LET D == {q \in DOMAIN f : Under(q, d)}
    IN  [r \in {SubSeq(q, Len(d) + 1, Len(q)) : q \in D} |-> f[d \o r]]

-----------------------------------------------------------------------------
(* OTAUpdater: configuration and pure helpers *)

\* the module argument of OTAUpdater(...), after rstrip('/')
Module == <<"app">>

main_dir == <<"main">>

get_module_and_path(path) ==
    IF Module # <<>> THEN Module \o Slash \o path ELSE path

MainPath == get_module_and_path(main_dir)

NextPath == get_module_and_path(<<"next">>)

MarkerName == <<".version">>

\* get_version raises when listdir or open does (not a directory, or the
\* version file is one)
get_versionOK(f, d) ==
    path_exists(f, d) =>
        /\ IsDir(f, d)
        /\ ~IsDir(f, d \o Slash \o MarkerName)

get_version(f, d) ==
    IF path_exists(f, d) /\ MarkerName \in listdir(f, d)
    THEN f[d \o Slash \o MarkerName].data
    ELSE NoneVal

\* Python's truth test of a version: None and '' are false
Falsy(v) == v = NoneVal \/ v = <<>>

\* the test with >= where line 92 has >
update_needed_or_equal(current_version, latest_version) ==
    Falsy(current_version) \/ ~StrGT(current_version, latest_version)

\* the test of download_updates_if_available, once a latest version exists
update_needed(current_version, latest_version) ==
    Falsy(current_version) \/ StrGT(latest_version, current_version)

\* where download_all_files puts the entry with the given repository path
download_path(path) ==
    get_module_and_path(<<"next">> \o Slash \o Replace(path, main_dir \o Slash))

-----------------------------------------------------------------------------
(* The release host *)

F(n) == [type |-> "file", name |-> n]

D(n) == [type |-> "dir", name |-> n]

\* the deepest nesting of directories in a release of the model
MaxDepth == 1

\* main/sub/.../sub, k levels below the main directory
RECURSIVE DeepDir(_)
DeepDir(k) == IF k = 0 THEN main_dir ELSE DeepDir(k - 1) \o Slash \o <<"sub">>

\* a release nested n levels: a.py, sub/b.py, sub/sub/b.py, ...
TreeDeep(n) ==
    [u \in {DeepDir(k) : k \in 0..n} |->
        <<F(IF u = main_dir THEN <<"a.py">> ELSE <<"b.py">>)>>
        \o (IF u = DeepDir(n) THEN <<>> ELSE <<D(<<"sub">>)>>)]

\* with MaxDepth = 1 the tree of the design's end-to-end example: a.py and
\* sub/b.py
TreePlain == TreeDeep(MaxDepth)

\* a release that ships a file called .version
TreeMarker == (<<"main">> :> <<F(<<".version">>), F(<<"a.py">>)>>)

\* a release with a directory that is called like the main directory
TreeNested ==
    (<<"main">> :> <<F(<<"a.py">>), D(<<"main">>)>>)
    @@ (<<"main", "/", "main">> :> <<F(<<"b.py">>)>>)

RemoteTrees == {TreePlain, TreeMarker, TreeNested}

\* the decoded body of GET <repo>/contents/<url>?ref=refs/tags/<version>
Listing(tree, url) ==
    [k \in 1..Len(tree[url]) |->
        [type |-> tree[url][k].type,
         name |-> tree[url][k].name,
         path |-> url \o Slash \o tree[url][k].name]]

\* the entries of a release, by repository path
EntriesOfType(tree, u, types) ==
    {u \o Slash \o tree[u][k].name :
        k \in {j \in 1..Len(tree[u]) : tree[u][j].type \in types}}

RemotePaths(tree) ==
    UNION {EntriesOfType(tree, u, {"file", "dir"}) : u \in DOMAIN tree}

RemoteFiles(tree) == UNION {EntriesOfType(tree, u, {"file"}) : u \in DOMAIN tree}

RemoteDirs(tree) == UNION {EntriesOfType(tree, u, {"dir"}) : u \in DOMAIN tree}

\* the body the host serves for a file, and the body of an error answer
Body(path) == <<"body of">> \o path

ErrBody == <<"404: Not Found">>

\* the error answers the host gives to file fetches in one behaviour
MaxErrors == 1

Tags == {<<"v", "1">>, <<"v", "1", "0">>, <<"v", "2">>}

-----------------------------------------------------------------------------
(* Initial storage *)

Empty == [q \in {} |-> Dir]

FsLive(v) ==
    LET m == MainPath
    IN  (Module :> Dir)
        @@ (m :> Dir)
        @@ (m \o Slash \o MarkerName :> File(v))
        @@ (m \o Slash \o <<"a.py">> :> File(<<"old a.py">>))
        @@ (m \o Slash \o <<"old">> :> Dir)
        @@ (m \o Slash \o <<"old">> \o Slash \o <<"c.py">> :> File(<<"old c.py">>))

InitialStorages == {Empty, FsLive(<<"v", "1", "0">>)}

NoFetch == [q \in {} |-> <<>>]

NoStage == [ver |-> NoneVal, files |-> NoFetch]

-----------------------------------------------------------------------------
(* The device: power, boot, and the two handlers of OTAUpdater *)

Frame(url) == [url |-> url, list |-> <<>>, i |-> 1, src |-> <<>>, path |-> <<>>]

Top(st) == st[Len(st)]

Pop(st) == SubSeq(st, 1, Len(st) - 1)

SetTop(st, f) == [st EXCEPT ![Len(st)] = f]

\* an exception leaves the handler: its locals are gone, storage stays
Raise ==
    /\ pc' = "idle"
    /\ ret' = "raised"
    /\ dstack' = <<>>
    /\ rstack' = <<>>

Return(value) ==
    /\ pc' = "idle"
    /\ ret' = value
    /\ dstack' = <<>>
    /\ rstack' = <<>>

\* what a restart comes upon: a promotion under way (lines 112-113), an
\* apply that has returned, a staging run that made next/ and then raised,
\* or anything else
Interrupted ==
    IF pc \in {"ap_rm_main", "ap_rename"} THEN "promotion"
    ELSE IF pc = "idle" /\ op = "apply" /\ ret # "raised" THEN "apply returned"
    ELSE IF /\ pc = "idle"
            /\ op = "download"
            /\ ret = "raised"
            /\ ~path_exists(pre, NextPath)
            /\ path_exists(fs, NextPath)
    THEN "staging raised"
    ELSE "other"

\* power is lost, or the device restarts: everything but storage is gone
PowerLoss ==
    /\ pc # "off"
    /\ pc' = "off"
    /\ cur' = NoneVal
    /\ latest' = NoneVal
    /\ dstack' = <<>>
    /\ rstack' = <<>>
    /\ op' = "none"
    /\ ret' = "none"
    /\ pre' = fs
    /\ boot' = Interrupted
    /\ UNCHANGED <<fs, remote, live0, done, fetched, staged, nerr, socks, h>>

\* the tests of lines 107-110 without the test of line 111: rmtree is
\* called on a live path that may be missing, and os.ilistdir raises
apply_pending_without_exists_test ==
    /\ pc = "off"
    /\ op' = "apply"
    /\ pre' = fs
    /\ dstack' = <<>>
    /\ IF path_exists(fs, Module) /\ <<"next">> \in listdir(fs, Module)
       THEN IF MarkerName \in listdir(fs, NextPath)
            THEN IF ~get_versionOK(fs, NextPath) \/ ~path_exists(fs, MainPath)
                 THEN Raise
                 ELSE /\ pc' = "ap_rm_main"
                      /\ rstack' = <<MainPath>>
                      /\ ret' = "running"
            ELSE /\ pc' = "ap_rm_next"
                 /\ rstack' = <<NextPath>>
                 /\ ret' = "running"
       ELSE /\ pc' = "idle"
            /\ rstack' = <<>>
            /\ ret' = "no pending"
    /\ UNCHANGED <<fs, remote, cur, latest, live0, done, fetched, staged, nerr,
                   boot, socks, h>>

\* apply_pending_updates_if_available, called at boot: the tests of lines
\* 107-111, which read storage and change nothing
apply_pending_updates_if_available ==
    /\ pc = "off"
    /\ op' = "apply"
    /\ pre' = fs
    /\ dstack' = <<>>
    /\ IF path_exists(fs, Module) /\ <<"next">> \in listdir(fs, Module)
       THEN IF MarkerName \in listdir(fs, NextPath)
            THEN IF ~get_versionOK(fs, NextPath)
                 THEN Raise
                 ELSE IF path_exists(fs, MainPath)
                 THEN /\ pc' = "ap_rm_main"
                      /\ rstack' = <<MainPath>>
                      /\ ret' = "running"
                 ELSE /\ pc' = "ap_rename"
                      /\ rstack' = <<>>
                      /\ ret' = "running"
            ELSE /\ pc' = "ap_rm_next"
                 /\ rstack' = <<NextPath>>
                 /\ ret' = "running"
       ELSE /\ pc' = "idle"
            /\ rstack' = <<>>
            /\ ret' = "no pending"
    /\ UNCHANGED <<fs, remote, cur, latest, live0, done, fetched, staged, nerr, boot,
                   socks, h>>

\* rmtree with a directory test that never holds: os.remove is called on a
\* subdirectory, and fails
rmtree_entry_no_directories ==
    /\ pc \in {"ap_rm_main", "ap_rm_next"}
    /\ \E c \in Children(fs, Top(rstack)) :
          IF fs[c].dir
          THEN /\ Raise
               /\ fs' = fs
          ELSE /\ rstack' = rstack
               /\ fs' = Drop(fs, c)
               /\ UNCHANGED <<pc, ret, dstack>>
    /\ UNCHANGED <<remote, cur, latest, op, pre, live0, done, fetched, staged,
                   nerr, boot,
                   socks, h>>

\* rmtree reaches an entry of the directory on top of its recursion: a
\* subdirectory is entered, anything else is removed (os.ilistdir yields
\* the entries in no specified order)
rmtree_entry ==
    /\ pc \in {"ap_rm_main", "ap_rm_next"}
    /\ \E c \in Children(fs, Top(rstack)) :
          IF fs[c].dir
          THEN /\ rstack' = Append(rstack, c)
               /\ fs' = fs
          ELSE /\ rstack' = rstack
               /\ fs' = Drop(fs, c)
    /\ UNCHANGED <<remote, pc, cur, latest, dstack, op, ret, pre, live0, done,
                   fetched, staged, nerr, boot,
                   socks, h>>

\* rmtree without line 129: the directory is left where it is
rmtree_without_rmdir ==
    /\ pc \in {"ap_rm_main", "ap_rm_next"}
    /\ Children(fs, Top(rstack)) = {}
    /\ fs' = fs
    /\ IF Len(rstack) > 1
       THEN /\ rstack' = Pop(rstack)
            /\ UNCHANGED <<pc, ret, dstack>>
       ELSE IF pc = "ap_rm_main"
       THEN /\ pc' = "ap_rename"
            /\ rstack' = <<>>
            /\ UNCHANGED <<ret, dstack>>
       ELSE Return("discarded")
    /\ UNCHANGED <<remote, cur, latest, op, pre, live0, done, fetched, staged,
                   nerr, boot, socks, h>>

\* rmtree has been through the directory on top: os.rmdir, and return to
\* the caller (rmtree itself, or apply_pending_updates_if_available)
rmtree_rmdir ==
    /\ pc \in {"ap_rm_main", "ap_rm_next"}
    /\ Children(fs, Top(rstack)) = {}
    /\ fs' = Drop(fs, Top(rstack))
    /\ IF Len(rstack) > 1
       THEN /\ rstack' = Pop(rstack)
            /\ UNCHANGED <<pc, ret, dstack>>
       ELSE IF pc = "ap_rm_main"
       THEN /\ pc' = "ap_rename"
            /\ rstack' = <<>>
            /\ UNCHANGED <<ret, dstack>>
       ELSE Return("discarded")
    /\ UNCHANGED <<remote, cur, latest, op, pre, live0, done, fetched, staged, nerr, boot,
                   socks, h>>

\* the promotion without its os.rename
apply_without_rename ==
    /\ pc = "ap_rename"
    /\ fs' = fs
    /\ Return("applied")
    /\ UNCHANGED <<remote, cur, latest, op, pre, live0, done, fetched, staged,
                   nerr, boot,
                   socks, h>>

\* the promotion with a copy where line 113 has a rename: next/ stays
apply_rename_copy ==
    /\ pc = "ap_rename"
    /\ IF renameOK(fs, NextPath, MainPath)
       THEN /\ fs' = rename(fs, NextPath, MainPath) @@ fs
            /\ Return("applied")
       ELSE /\ fs' = fs
            /\ Raise
    /\ UNCHANGED <<remote, cur, latest, op, pre, live0, done, fetched, staged,
                   nerr, boot, socks, h>>

\* os.rename('next', main_dir), line 113
apply_rename ==
    /\ pc = "ap_rename"
    /\ IF renameOK(fs, NextPath, MainPath)
       THEN /\ fs' = rename(fs, NextPath, MainPath)
            /\ Return("applied")
       ELSE /\ fs' = fs
            /\ Raise
    /\ UNCHANGED <<remote, cur, latest, op, pre, live0, done, fetched, staged, nerr, boot,
                   socks, h>>

\* download_updates_if_available is called: line 82
download_updates_if_available ==
    /\ pc = "idle"
    /\ op' = "download"
    /\ ret' = "running"
    /\ pre' = fs
    /\ staged' = NoStage
    /\ latest' = NoneVal
    /\ IF get_versionOK(fs, MainPath)
       THEN /\ cur' = get_version(fs, MainPath)
            /\ pc' = "dl_latest"
       ELSE /\ cur' = NoneVal
            /\ pc' = "idle"
    /\ UNCHANGED <<fs, remote, dstack, rstack, live0, done, fetched, nerr, boot,
                   socks, h>>

\* get_latest_version answers, and lines 89-92 decide
get_latest_version ==
    /\ pc = "dl_latest"
    /\ \E answer \in {<<"raise">>, <<"no tag_name">>} \cup Tags :
          IF answer = <<"raise">>
          THEN /\ Raise
               /\ latest' = NoneVal
          ELSE IF answer = <<"no tag_name">>
          THEN /\ Return("False")
               /\ latest' = NoneVal
          ELSE /\ latest' = answer
               /\ IF Falsy(answer)
                  THEN Return("False")
                  ELSE IF update_needed(cur, answer)
                  THEN /\ pc' = "dl_mkmod"
                       /\ UNCHANGED <<ret, dstack, rstack>>
                  ELSE Return("False")
    /\ UNCHANGED <<fs, remote, cur, op, pre, live0, done, fetched, staged, nerr, boot,
                   socks, h>>

\* lines 94-95
download_mkdir_module ==
    /\ pc = "dl_mkmod"
    /\ fs' = IF path_exists(fs, Module) THEN fs ELSE mkdir(fs, Module)
    /\ pc' = "dl_mknext"
    /\ UNCHANGED <<remote, cur, latest, dstack, rstack, op, ret, pre, live0,
                   done, fetched, staged, nerr, boot,
                   socks, h>>

\* line 96 with a mkdir that accepts a directory that is already there
download_mkdir_next_exist_ok ==
    /\ pc = "dl_mknext"
    /\ IF mkdirOK(fs, NextPath) \/ IsDir(fs, NextPath)
       THEN /\ fs' = mkdir(fs, NextPath)
            /\ pc' = "daf_get"
            /\ dstack' = <<Frame(main_dir)>>
            /\ done' = {}
            /\ fetched' = NoFetch
            /\ UNCHANGED <<ret, rstack>>
       ELSE /\ fs' = fs
            /\ Raise
            /\ UNCHANGED <<done, fetched>>
    /\ UNCHANGED <<remote, cur, latest, op, pre, live0, staged, nerr, boot,
                   socks, h>>

\* line 96, and the call of download_all_files of line 97
download_mkdir_next ==
    /\ pc = "dl_mknext"
    /\ IF mkdirOK(fs, NextPath)
       THEN /\ fs' = mkdir(fs, NextPath)
            /\ pc' = "daf_get"
            /\ dstack' = <<Frame(main_dir)>>
            /\ done' = {}
            /\ fetched' = NoFetch
            /\ UNCHANGED <<ret, rstack>>
       ELSE /\ fs' = fs
            /\ Raise
            /\ UNCHANGED <<done, fetched>>
    /\ UNCHANGED <<remote, cur, latest, op, pre, live0, staged, nerr, boot,
                   socks, h>>

\* download_all_files, line 153 and file_list.json(): the listing arrives,
\* or an error answer whose body is no list of entries, or the request fails
download_all_files_get ==
    /\ pc = "daf_get"
    /\ \E answer \in {"ok", "error status", "raise"} :
          IF answer = "ok" /\ Top(dstack).url \in DOMAIN remote
          THEN /\ dstack' = SetTop(dstack, [Top(dstack) EXCEPT
                                !.list = Listing(remote, Top(dstack).url)])
               /\ pc' = "daf_iter"
               /\ UNCHANGED <<ret, rstack>>
          ELSE Raise
    /\ UNCHANGED <<fs, remote, cur, latest, op, pre, live0, done, fetched,
                   staged, nerr, boot,
                   socks, h>>

\* download_all_files, lines 154-164: the next entry of the listing
download_all_files_entry ==
    /\ pc = "daf_iter"
    /\ LET f == Top(dstack)
           e == f.list[f.i]
           path == download_path(e.path)
       IN  IF f.i > Len(f.list)
           THEN /\ fs' = fs
                /\ done' = done
                /\ dstack' = Pop(dstack)
                /\ pc' = IF Len(dstack) > 1 THEN "daf_iter" ELSE "dl_marker"
                /\ UNCHANGED <<ret, rstack>>
           ELSE IF e.type = "file"
           THEN IF openwOK(fs, path)
                THEN /\ fs' = openw(fs, path)
                     /\ done' = done
                     /\ dstack' = SetTop(dstack, [f EXCEPT !.i = f.i + 1,
                                                  !.src = e.path, !.path = path])
                     /\ pc' = "df_get"
                     /\ UNCHANGED <<ret, rstack>>
                ELSE /\ fs' = fs
                     /\ done' = done
                     /\ Raise
           ELSE IF e.type = "dir"
           THEN IF mkdirOK(fs, path)
                THEN /\ fs' = mkdir(fs, path)
                     /\ done' = done \cup {e.path}
                     /\ dstack' = Append(SetTop(dstack, [f EXCEPT !.i = f.i + 1]),
                                         Frame(f.url \o Slash \o e.name))
                     /\ pc' = "daf_get"
                     /\ UNCHANGED <<ret, rstack>>
                ELSE /\ fs' = fs
                     /\ done' = done
                     /\ Raise
           ELSE /\ fs' = fs
                /\ done' = done
                /\ dstack' = SetTop(dstack, [f EXCEPT !.i = f.i + 1])
                /\ UNCHANGED <<pc, ret, rstack>>
    /\ UNCHANGED <<remote, cur, latest, op, pre, live0, fetched, staged, nerr, boot,
                   socks, h>>

\* download_file, lines 171-172: the request and response.text; no status
\* is looked at, so the body of an error answer is taken like a file's
download_file_get ==
    /\ pc = "df_get"
    /\ \E answer \in {"ok", "raise"}
                     \cup (IF nerr < MaxErrors THEN {"error status"} ELSE {}) :
          IF answer = "raise"
          THEN /\ Raise
               /\ fetched' = fetched
               /\ nerr' = nerr
          ELSE /\ nerr' = (IF answer = "ok" THEN nerr ELSE nerr + 1)
               /\ fetched' = Put(fetched, Top(dstack).src,
                                 IF answer = "ok" THEN Body(Top(dstack).src)
                                 ELSE ErrBody)
               /\ pc' = "df_write"
               /\ UNCHANGED <<ret, dstack, rstack>>
    /\ UNCHANGED <<fs, remote, cur, latest, op, pre, live0, done, staged, boot,
                   socks, h>>

\* download_file, line 172: outfile.write
download_file_write ==
    /\ pc = "df_write"
    /\ fs' = write(fs, Top(dstack).path, fetched[Top(dstack).src])
    /\ done' = done \cup {Top(dstack).src}
    /\ pc' = "daf_iter"
    /\ UNCHANGED <<remote, cur, latest, dstack, rstack, op, ret, pre, live0,
                   fetched, staged, nerr, boot,
                   socks, h>>

\* line 98: open('next/.version', 'w')
download_marker_open ==
    /\ pc = "dl_marker"
    /\ IF openwOK(fs, NextPath \o Slash \o MarkerName)
       THEN /\ fs' = openw(fs, NextPath \o Slash \o MarkerName)
            /\ pc' = "dl_marker_write"
            /\ UNCHANGED <<ret, dstack, rstack>>
       ELSE /\ fs' = fs
            /\ Raise
    /\ UNCHANGED <<remote, cur, latest, op, pre, live0, done, fetched, staged, nerr, boot,
                   socks, h>>

\* lines 99-102: versionfile.write(latest_version); return True
download_marker_write ==
    /\ pc = "dl_marker_write"
    /\ fs' = write(fs, NextPath \o Slash \o MarkerName, latest)
    /\ staged' = [ver |-> latest, files |-> fetched]
    /\ Return("True")
    /\ UNCHANGED <<remote, cur, latest, op, pre, live0, done, fetched, nerr, boot,
                   socks, h>>

HIdle == [pc |-> "unused"]

Init ==
    /\ remote \in RemoteTrees
    /\ fs \in InitialStorages
    /\ live0 = fs
    /\ pre = fs
    /\ pc = "off"
    /\ cur = NoneVal
    /\ latest = NoneVal
    /\ dstack = <<>>
    /\ rstack = <<>>
    /\ op = "none"
    /\ ret = "none"
    /\ done = {}
    /\ fetched = NoFetch
    /\ staged = NoStage
    /\ nerr = 0
    /\ boot = "first"
    /\ socks = 0
    /\ h = HIdle

Next ==
    \/ PowerLoss
    \/ apply_pending_updates_if_available
    \/ rmtree_entry
    \/ rmtree_rmdir
    \/ apply_rename
    \/ download_updates_if_available
    \/ get_latest_version
    \/ download_mkdir_module
    \/ download_mkdir_next
    \/ download_all_files_get
    \/ download_all_files_entry
    \/ download_file_get
    \/ download_file_write
    \/ download_marker_open
    \/ download_marker_write

Spec == Init /\ [][Next]_vars

-----------------------------------------------------------------------------
(* rmtree on directory trees of every shape up to a depth *)

\* the deepest nesting of the trees rmtree is given
MaxNest == 2

\* root/sub/.../sub, k levels below root
RECURSIVE SubDir(_, _)
SubDir(root, k) == IF k = 0 THEN root ELSE SubDir(root, k - 1) \o Slash \o <<"sub">>

\* a storage with a tree at root, n levels of directories below it and the
\* files named in names in each of them, beside a directory that is not to
\* be touched
RmStorage(root, n, names) ==
    LET dirs == {SubDir(root, k) : k \in 0..n}
        files == {d \o Slash \o nm : d \in dirs, nm \in names}
        other == IF root = NextPath THEN MainPath ELSE NextPath
        keep == {other \o Slash \o MarkerName, other \o Slash \o <<"a.py">>}
    IN  [q \in dirs \cup files \cup {Module, other} \cup keep |->
            IF q \in dirs \cup {Module, other} THEN Dir ELSE File(<<"kept">>)]

RmNames == {{}, {<<"a.py">>}, {<<"a.py">>, <<"b.py">>}}

\* rmtree(directory) is called as apply_pending_updates_if_available calls
\* it: on the live path (line 112) or on next (line 117)
InitRm ==
    /\ \E root \in {MainPath, NextPath}, n \in 0..MaxNest, names \in RmNames :
          /\ fs = RmStorage(root, n, names)
          /\ pc = (IF root = MainPath THEN "ap_rm_main" ELSE "ap_rm_next")
          /\ rstack = <<root>>
    /\ pre = fs
    /\ live0 = fs
    /\ remote = TreePlain
    /\ cur = NoneVal
    /\ latest = NoneVal
    /\ dstack = <<>>
    /\ op = "apply"
    /\ ret = "running"
    /\ done = {}
    /\ fetched = NoFetch
    /\ staged = NoStage
    /\ nerr = 0
    /\ boot = "first"
    /\ socks = 0
    /\ h = HIdle

NextRm ==
    \/ rmtree_entry
    \/ rmtree_rmdir

\* the interpreter keeps running the call until it returns
SpecRm == InitRm /\ [][NextRm]_vars /\ WF_vars(NextRm)

-----------------------------------------------------------------------------
(* HttpClient.request and Response *)

\* header lines the model lets the server send before the blank line
MaxHeaders == 2

\* calls made on one Response
MaxCalls == 3

Protocols == {"http:", "https:", "ftp:"}

\* first lines of an answer, as the fields l.split(None, 2) yields: answers
\* with a status, then an end of stream, a line with one field, and a line
\* whose second field is no number
StatusLines ==
    {<<"HTTP/1.0", "200", "OK">>,
     <<"HTTP/1.0", "301", "Moved Permanently">>,
     <<"HTTP/1.0", "304">>,
     <<"HTTP/1.0", "404", "Not Found">>,
     <<>>,
     <<"HTTP/1.0">>,
     <<"HTTP/1.0", "abc", "OK">>}

\* header lines by their tokens: the field name with its colon comes first
HeaderLines ==
    {<<"Transfer-Encoding:", " ", "chunked">>,
     <<"transfer-encoding:", " ", "chunked">>,
     <<"Transfer-Encoding:", " ", "identity">>,
     <<"Location:", " ", "http://host/x">>,
     <<"Content-Type:", " ", "text/plain">>}

CRLF == <<"\r\n">>

\* bodies of answers: a release with its tag, an object without tag_name,
\* the listing of the directory that was asked for, and an empty body
TagBody == <<"{\"tag_name\": \"v2\"}">>

NoTagBody == <<"{\"message\": \"Not Found\"}">>

ListBody == <<"[{\"type\": ..., \"name\": ..., \"path\": ...}, ...]">>

Bodies == {<<>>, TagBody, NoTagBody, ListBody}

\* ujson.loads raises ValueError on a body that is no JSON text
IsJson(body) == body \in {TagBody, NoTagBody, ListBody}

\* 'tag_name' in <decoded body>
HasTag(body) == body = TagBody

\* <decoded body>['tag_name']
tag_name(body) == <<"v", "2">>

\* int(l[1]): 0 stands for the ValueError of a field that is no number
IntOf(field) ==
    CASE field = "200" -> 200
      [] field = "301" -> 301
      [] field = "304" -> 304
      [] field = "404" -> 404
      [] OTHER -> 0

IsNumber(field) == field \in {"200", "301", "304", "404"}

\* the type of what s.readline() returns, and of a string literal
ReadlineType == "bytes"

LiteralType == "str"

\* 'Unsupported ' + l of line 293 is evaluated before ValueError is raised;
\* + on str and bytes raises TypeError
chunked_error(left, right) == IF left = right THEN "ValueError" ELSE "TypeError"

HStart ==
    [pc |-> "start", proto |-> "", sock |-> "none", closes |-> 0, err |-> "none",
     status |-> 0, wellformed |-> FALSE, hdrs |-> <<>>, raw |-> "None",
     cached |-> NoneVal, reads |-> 0, acc |-> 0, calls |-> 0, closed |-> FALSE,
     closedAtFirst |-> FALSE, first |-> <<"none">>, last |-> <<"none">>,
     lastCall |-> "none"]

\* request raises err; with close the except clause of line 296 ran first
RequestRaise(err, close) ==
    [h EXCEPT !.pc = "raised",
              !.err = err,
              !.sock = IF close THEN "closed" ELSE @,
              !.closes = IF close THEN @ + 1 ELSE @]

\* lines 228-238: the url is split and the protocol looked at
request_url ==
    /\ h.pc = "start"
    /\ \E proto \in Protocols :
          h' = IF proto \in {"http:", "https:"}
               THEN [h EXCEPT !.pc = "getaddrinfo", !.proto = proto]
               ELSE [RequestRaise("ValueError", FALSE) EXCEPT !.proto = proto]
    /\ UNCHANGED otaVars

\* lines 244-247: getaddrinfo and socket(), outside the try
request_socket ==
    /\ h.pc = "getaddrinfo"
    /\ \E ok \in BOOLEAN :
          h' = IF ok
               THEN [h EXCEPT !.pc = "connect", !.sock = "open"]
               ELSE RequestRaise("OSError", FALSE)
    /\ UNCHANGED otaVars

\* lines 250-251: settimeout and connect
request_connect ==
    /\ h.pc = "connect"
    /\ \E ok \in BOOLEAN :
          h' = IF ok
               THEN [h EXCEPT !.pc = IF h.proto = "https:" THEN "wrap" ELSE "write"]
               ELSE RequestRaise("OSError", TRUE)
    /\ UNCHANGED otaVars

\* lines 252-253: ussl.wrap_socket
request_wrap ==
    /\ h.pc = "wrap"
    /\ \E ok \in BOOLEAN :
          h' = IF ok
               THEN [h EXCEPT !.pc = "write"]
               ELSE RequestRaise("OSError", TRUE)
    /\ UNCHANGED otaVars

\* lines 254-277: the request line, the headers and the body are written
request_write ==
    /\ h.pc = "write"
    /\ \E ok \in BOOLEAN :
          h' = IF ok
               THEN [h EXCEPT !.pc = "status"]
               ELSE RequestRaise("OSError", TRUE)
    /\ UNCHANGED otaVars

\* lines 279-285: the status line is read, split and its code converted
request_status ==
    /\ h.pc = "status"
    /\ \E ok \in BOOLEAN, l \in StatusLines :
          h' = IF ~ok
               THEN RequestRaise("OSError", TRUE)
               ELSE IF Len(l) < 2
               THEN RequestRaise("IndexError", FALSE)
               ELSE IF ~IsNumber(l[2])
               THEN RequestRaise("ValueError", FALSE)
               ELSE [h EXCEPT !.pc = "headers", !.status = IntOf(l[2]),
                              !.wellformed = TRUE]
    /\ UNCHANGED otaVars

\* lines 286-295 and 300-303: one turn of the header loop; the blank line
\* or the end of the stream ends it and the Response is made
request_header ==
    /\ h.pc = "headers"
    /\ \E ok \in BOOLEAN,
          l \in {<<>>, CRLF}
                \cup (IF Len(h.hdrs) < MaxHeaders THEN HeaderLines ELSE {}) :
          h' = IF ~ok
               THEN RequestRaise("OSError", TRUE)
               ELSE IF l = <<>> \/ l = CRLF
               THEN [h EXCEPT !.pc = "returned", !.raw = "sock"]
               ELSE IF Head(l) = "Transfer-Encoding:"
               THEN IF \E k \in 1..Len(l) : l[k] = "chunked"
                    THEN [RequestRaise(chunked_error(LiteralType, ReadlineType), FALSE)
                             EXCEPT !.hdrs = Append(@, l)]
                    ELSE [h EXCEPT !.hdrs = Append(@, l)]
               ELSE IF Head(l) = "Location:" /\ ~(200 <= h.status /\ h.status <= 299)
               THEN [RequestRaise("NotImplementedError", FALSE)
                        EXCEPT !.hdrs = Append(@, l)]
               ELSE [h EXCEPT !.hdrs = Append(@, l)]
    /\ UNCHANGED otaVars

\* Response.content without the test of line 206
Response_content_uncached ==
    /\ h.pc = "returned"
    /\ h.calls < MaxCalls
    /\ \E ok \in BOOLEAN, body \in Bodies, call \in {"content", "text", "json"} :
          LET base == [h EXCEPT !.calls = @ + 1, !.acc = @ + 1, !.lastCall = call,
                                !.closedAtFirst = IF h.acc = 0 THEN h.closed ELSE @]
              result(r) == [r EXCEPT !.first = IF h.acc = 0 THEN r.last ELSE @]
          IN  h' = IF h.raw = "None"
                   THEN result([base EXCEPT !.last = <<"AttributeError">>])
                   ELSE IF ok
                   THEN result([base EXCEPT !.cached = body, !.reads = @ + 1,
                                            !.sock = "closed", !.closes = @ + 1,
                                            !.raw = "None", !.last = body])
                   ELSE result([base EXCEPT !.reads = @ + 1, !.sock = "closed",
                                            !.closes = @ + 1, !.raw = "None",
                                            !.last = <<"OSError">>])
    /\ UNCHANGED otaVars

\* Response.content, lines 204-212, reached through content, text or json:
\* the read of the body, the close of the socket in the finally clause, and
\* what the access returns or raises
Response_content ==
    /\ h.pc = "returned"
    /\ h.calls < MaxCalls
    /\ \E ok \in BOOLEAN, body \in Bodies, call \in {"content", "text", "json"} :
          LET base == [h EXCEPT !.calls = @ + 1, !.acc = @ + 1, !.lastCall = call,
                                !.closedAtFirst = IF h.acc = 0 THEN h.closed ELSE @]
              result(r) == [r EXCEPT !.first = IF h.acc = 0 THEN r.last ELSE @]
          IN  h' = IF h.cached # NoneVal
                   THEN result([base EXCEPT !.last = h.cached])
                   ELSE IF h.raw = "None"
                   THEN result([base EXCEPT !.last = <<"AttributeError">>])
                   ELSE IF ok
                   THEN result([base EXCEPT !.cached = body, !.reads = @ + 1,
                                            !.sock = "closed", !.closes = @ + 1,
                                            !.raw = "None", !.last = body])
                   ELSE result([base EXCEPT !.reads = @ + 1, !.sock = "closed",
                                            !.closes = @ + 1, !.raw = "None",
                                            !.last = <<"OSError">>])
    /\ UNCHANGED otaVars

\* Response.close without the test of line 199: raw.close() on None raises
Response_close_unguarded ==
    /\ h.pc = "returned"
    /\ h.calls < MaxCalls
    /\ h' = [h EXCEPT !.calls = @ + 1,
                      !.lastCall = "close",
                      !.last = IF h.raw # "None" THEN <<"None">>
                               ELSE <<"AttributeError">>,
                      !.closed = TRUE,
                      !.sock = "closed",
                      !.closes = IF h.raw # "None" THEN @ + 1 ELSE @,
                      !.raw = "None",
                      !.cached = IF h.raw # "None" THEN NoneVal ELSE @]
    /\ UNCHANGED otaVars

\* Response.close, lines 198-202; it returns None
Response_close ==
    /\ h.pc = "returned"
    /\ h.calls < MaxCalls
    /\ h' = [h EXCEPT !.calls = @ + 1,
                      !.lastCall = "close",
                      !.last = <<"None">>,
                      !.closed = TRUE,
                      !.sock = IF h.raw # "None" THEN "closed" ELSE @,
                      !.closes = IF h.raw # "None" THEN @ + 1 ELSE @,
                      !.raw = "None",
                      !.cached = NoneVal]
    /\ UNCHANGED otaVars

InitHttp ==
    /\ h = HStart
    /\ remote = TreePlain
    /\ fs = Empty
    /\ live0 = Empty
    /\ pre = Empty
    /\ pc = "off"
    /\ cur = NoneVal
    /\ latest = NoneVal
    /\ dstack = <<>>
    /\ rstack = <<>>
    /\ op = "none"
    /\ ret = "none"
    /\ done = {}
    /\ fetched = NoFetch
    /\ staged = NoStage
    /\ nerr = 0
    /\ boot = "first"
    /\ socks = 0

NextHttp ==
    \/ request_url
    \/ request_socket
    \/ request_connect
    \/ request_wrap
    \/ request_write
    \/ request_status
    \/ request_header
    \/ Response_content
    \/ Response_close

SpecHttp == InitHttp /\ [][NextHttp]_vars

-----------------------------------------------------------------------------
(* The fetches of OTAUpdater, exchange by exchange: get_latest_version,    *)
(* download_all_files and download_file over HttpClient.request and the    *)
(* Response calls above. Storage is left out: every open and mkdir of the  *)
(* walk is taken to succeed.                                               *)

\* sockets the model lets be open at once
MaxSocks == 2

\* the variables the fetches leave alone
fetchIdle == <<fs, remote, cur, rstack, pre, live0, done, fetched, staged,
               nerr, boot>>

\* the socket of the exchange before, when nothing has closed it
Leak == IF h.sock = "open" THEN 1 ELSE 0

OpenSockets == socks + Leak

\* self._http_client.get(...) is called: a new exchange begins
NewExchange ==
    /\ OpenSockets < MaxSocks
    /\ h' = HStart
    /\ socks' = OpenSockets

\* the locals of one call of download_all_files; of the Response file_list
\* the frame keeps raw, which is all that line 164 looks at
FetchFrame(url) == [url |-> url, list |-> <<>>, i |-> 1, file_list |-> "None"]

\* an exception leaves the fetch and its callers
FetchRaise ==
    /\ pc' = "idle"
    /\ ret' = "raised"
    /\ dstack' = <<>>

\* line 144
get_latest_version_call ==
    /\ pc = "idle"
    /\ NewExchange
    /\ pc' = "dl_latest"
    /\ op' = "latest"
    /\ ret' = "running"
    /\ latest' = NoneVal
    /\ dstack' = <<>>
    /\ UNCHANGED fetchIdle

\* latest_release.json() of line 145, and of line 147 when line 145 found
\* the tag
get_latest_version_json ==
    /\ pc = "dl_latest"
    /\ \/ h.calls = 0
       \/ h.calls = 1 /\ HasTag(h.first)
    /\ Response_content
    /\ h'.lastCall = "json"

\* line 147: version = <decoded body>['tag_name']
get_latest_version_version ==
    /\ pc = "dl_latest"
    /\ h.pc = "returned"
    /\ h.calls = 2
    /\ latest = NoneVal
    /\ latest' = IF IsJson(h.last) /\ HasTag(h.last) THEN tag_name(h.last)
                 ELSE <<"KeyError">>
    /\ UNCHANGED <<pc, op, ret, dstack, socks, h>>
    /\ UNCHANGED fetchIdle

\* line 148
get_latest_version_close ==
    /\ pc = "dl_latest"
    /\ h.calls = 2
    /\ latest # NoneVal
    /\ Response_close

\* the version returned where line 146 returns None
get_latest_version_return_empty ==
    /\ pc = "dl_latest"
    /\ \/ /\ h.pc = "raised"
          /\ FetchRaise
          /\ latest' = NoneVal
       \/ /\ h.pc = "returned"
          /\ h.calls = 1
          /\ ~IsJson(h.first)
          /\ FetchRaise
          /\ latest' = NoneVal
       \/ /\ h.pc = "returned"
          /\ h.calls = 1
          /\ IsJson(h.first)
          /\ ~HasTag(h.first)
          /\ pc' = "idle"
          /\ ret' = "returned"
          /\ latest' = <<>>
          /\ dstack' = <<>>
       \/ /\ h.pc = "returned"
          /\ h.calls = 3
          /\ pc' = "idle"
          /\ ret' = "returned"
          /\ latest' = latest
          /\ dstack' = <<>>
    /\ UNCHANGED <<op, socks, h>>
    /\ UNCHANGED fetchIdle

\* get_latest_version ends: the request or the decoding has raised, line
\* 146 returns None, or line 149 returns the version
get_latest_version_return ==
    /\ pc = "dl_latest"
    /\ \/ /\ h.pc = "raised"
          /\ FetchRaise
          /\ latest' = NoneVal
       \/ /\ h.pc = "returned"
          /\ h.calls = 1
          /\ ~IsJson(h.first)
          /\ FetchRaise
          /\ latest' = NoneVal
       \/ /\ h.pc = "returned"
          /\ h.calls = 1
          /\ IsJson(h.first)
          /\ ~HasTag(h.first)
          /\ pc' = "idle"
          /\ ret' = "returned"
          /\ latest' = NoneVal
          /\ dstack' = <<>>
       \/ /\ h.pc = "returned"
          /\ h.calls = 3
          /\ pc' = "idle"
          /\ ret' = "returned"
          /\ latest' = latest
          /\ dstack' = <<>>
    /\ UNCHANGED <<op, socks, h>>
    /\ UNCHANGED fetchIdle

\* line 97 calls download_all_files, which sends the request of line 153
download_all_files_call ==
    /\ pc = "idle"
    /\ NewExchange
    /\ pc' = "daf_get"
    /\ op' = "staging"
    /\ ret' = "running"
    /\ dstack' = <<FetchFrame(main_dir)>>
    /\ UNCHANGED latest
    /\ UNCHANGED fetchIdle

\* file_list.json() of line 154
download_all_files_json ==
    /\ pc = "daf_get"
    /\ h.calls = 0
    /\ Response_content
    /\ h'.lastCall = "json"

\* line 154: the loop is entered over the decoded listing; the request and
\* the decoding may have raised, and file['type'] raises TypeError on the
\* keys of an object
download_all_files_list ==
    /\ pc = "daf_get"
    /\ \/ /\ h.pc = "raised"
          /\ FetchRaise
       \/ /\ h.pc = "returned"
          /\ h.calls = 1
          /\ IF h.last = ListBody
             THEN /\ dstack' = SetTop(dstack, [Top(dstack) EXCEPT
                                   !.list = Listing(remote, Top(dstack).url),
                                   !.file_list = h.raw])
                  /\ pc' = "daf_iter"
                  /\ ret' = ret
             ELSE FetchRaise
    /\ UNCHANGED <<latest, op, socks, h>>
    /\ UNCHANGED fetchIdle

\* lines 154-164: the next entry is fetched (line 171) or entered (line
\* 162), or the loop is over and line 164 closes file_list
download_all_files_next ==
    /\ pc = "daf_iter"
    /\ LET f == Top(dstack)
           e == f.list[f.i]
       IN  IF f.i > Len(f.list)
           THEN /\ socks' = IF f.file_list = "None" THEN socks ELSE socks - 1
                /\ h' = h
                /\ dstack' = Pop(dstack)
                /\ pc' = IF Len(dstack) > 1 THEN "daf_iter" ELSE "idle"
                /\ ret' = IF Len(dstack) > 1 THEN ret ELSE "returned"
           ELSE IF e.type = "file"
           THEN /\ NewExchange
                /\ dstack' = SetTop(dstack, [f EXCEPT !.i = f.i + 1])
                /\ pc' = "df_get"
                /\ ret' = ret
           ELSE /\ NewExchange
                /\ dstack' = Append(SetTop(dstack, [f EXCEPT !.i = f.i + 1]),
                                    FetchFrame(f.url \o Slash \o e.name))
                /\ pc' = "daf_get"
                /\ ret' = ret
    /\ UNCHANGED <<latest, op>>
    /\ UNCHANGED fetchIdle

\* response.text of line 172
download_file_text ==
    /\ pc = "df_get"
    /\ h.calls = 0
    /\ Response_content
    /\ h'.lastCall = "text"

\* response.close() of line 174, when line 171 has bound response
download_file_finally ==
    /\ pc = "df_get"
    /\ h.calls = 1
    /\ Response_close

\* download_file ends: with the exception of the request (line 174 then
\* finds no response to close), with that of the read, or normally
download_file_return ==
    /\ pc = "df_get"
    /\ \/ /\ h.pc = "raised"
          /\ FetchRaise
       \/ /\ h.pc = "returned"
          /\ h.calls = 2
          /\ IF h.first \in Bodies
             THEN /\ pc' = "daf_iter"
                  /\ UNCHANGED <<ret, dstack>>
             ELSE FetchRaise
    /\ UNCHANGED <<latest, op, socks, h>>
    /\ UNCHANGED fetchIdle

InitFetch ==
    /\ h = [HStart EXCEPT !.pc = "unused"]
    /\ socks = 0
    /\ remote = TreePlain
    /\ fs = Empty
    /\ live0 = Empty
    /\ pre = Empty
    /\ pc = "idle"
    /\ cur = NoneVal
    /\ latest = NoneVal
    /\ dstack = <<>>
    /\ rstack = <<>>
    /\ op = "none"
    /\ ret = "none"
    /\ done = {}
    /\ fetched = NoFetch
    /\ staged = NoStage
    /\ nerr = 0
    /\ boot = "first"

NextFetch ==
    \/ get_latest_version_call
    \/ get_latest_version_json
    \/ get_latest_version_version
    \/ get_latest_version_close
    \/ get_latest_version_return
    \/ download_all_files_call
    \/ download_all_files_json
    \/ download_all_files_list
    \/ download_all_files_next
    \/ download_file_text
    \/ download_file_finally
    \/ download_file_return
    \/ request_url
    \/ request_socket
    \/ request_connect
    \/ request_wrap
    \/ request_write
    \/ request_status
    \/ request_header

SpecFetch == InitFetch /\ [][NextFetch]_vars

-----------------------------------------------------------------------------
(* What the design asks of the update state machine *)

\* the path of a remote entry relative to the main directory of the release
Rel(p) == SubSeq(p, Len(main_dir) + 2, Len(p))

\* the directory d holds a marker and every file and directory of the
\* release, each file with a body
HoldsRelease(f, d) ==
    /\ IsFile(f, d \o Slash \o MarkerName)
    /\ \A p \in RemoteFiles(remote) :
          /\ IsFile(f, d \o Slash \o Rel(p))
          /\ f[d \o Slash \o Rel(p)].data # <<>>
    /\ \A p \in RemoteDirs(remote) : IsDir(f, d \o Slash \o Rel(p))

LiveIntact ==
    \/ Subtree(fs, MainPath) = Subtree(live0, MainPath)
    \/ HoldsRelease(fs, MainPath)

\* b > a in the lexicographic order of strings, stated on positions
LexGreater(b, a) ==
    \E k \in 1..Len(b) :
        /\ \A j \in 1..(k - 1) : j <= Len(a) /\ a[j] = b[j]
        /\ \/ k > Len(a)
           \/ /\ k <= Len(a)
              /\ CodePoint(b[k]) > CodePoint(a[k])

StagingPcs ==
    {"dl_mkmod", "dl_mknext", "daf_get", "daf_iter", "df_get", "df_write",
     "dl_marker", "dl_marker_write"}

\* C1: starting from an intact live tree, every reachable state has an
\* intact live tree or a staging tree that holds its marker and every file
\* of the release.
C1_LiveOrStagingComplete ==
    path_exists(live0, MainPath) => (LiveIntact \/ HoldsRelease(fs, NextPath))

\* C2: next/.version exists only if every remote file and directory of the
\* release has already been written under next/ by the staging run.
C2_MarkerWrittenLast ==
    path_exists(fs, NextPath \o Slash \o MarkerName) => done = RemotePaths(remote)

\* C3: when apply_pending_updates_if_available was called with a marker in
\* next/ and has returned, the live path holds exactly what next/ held, with
\* its version, nothing of the old live tree is left, and next/ is gone.
C3_ApplyPromotes ==
    (/\ pc = "idle"
     /\ op = "apply"
     /\ path_exists(pre, NextPath \o Slash \o MarkerName))
    => /\ ret = "applied"
       /\ Subtree(fs, MainPath) = Subtree(pre, NextPath)
       /\ get_version(fs, MainPath) = get_version(pre, NextPath)
       /\ ~\E q \in DOMAIN fs : Under(q, NextPath)
       /\ \A q \in DOMAIN pre :
             Under(q, MainPath) /\ (q \in DOMAIN fs) =>
                path_exists(pre, NextPath \o SubSeq(q, Len(MainPath) + 1, Len(q)))

\* a live tree with a subdirectory was replaced by a staged release
C3_Witness ==
    /\ pc = "idle"
    /\ op = "apply"
    /\ ret = "applied"
    /\ path_exists(pre, NextPath \o Slash \o MarkerName)
    /\ IsDir(pre, MainPath \o Slash \o <<"old">>)
    /\ \E q \in DOMAIN fs : Under(q, MainPath) /\ Len(q) > Len(MainPath) + 2

\* C4: when apply_pending_updates_if_available was called with a next/ that
\* has no marker and has returned, nothing is left of next/ and everything
\* else on storage, the live tree and its .version included, is as before.
C4_DiscardLeavesLive ==
    (/\ pc = "idle"
     /\ op = "apply"
     /\ path_exists(pre, NextPath)
     /\ ~path_exists(pre, NextPath \o Slash \o MarkerName))
    => /\ ret = "discarded"
       /\ ~\E q \in DOMAIN fs : Under(q, NextPath)
       /\ Subtree(fs, MainPath) = Subtree(pre, MainPath)
       /\ fs = [q \in {r \in DOMAIN pre : ~Under(r, NextPath)} |-> pre[q]]

\* a partial staging tree with a file two levels down was discarded beside
\* a live tree
C4_Witness ==
    /\ pc = "idle"
    /\ op = "apply"
    /\ ret = "discarded"
    /\ path_exists(pre, MainPath \o Slash \o MarkerName)
    /\ \E q \in DOMAIN pre :
          /\ Under(q, NextPath)
          /\ Len(q) > Len(NextPath) + 2 * MaxDepth
          /\ ~pre[q].dir

\* C5: download_updates_if_available stages (and, when staging ends
\* normally, returns True) exactly when a latest version b exists and no
\* version is installed or b > a lexicographically; otherwise it returns
\* False and storage is as it was.
C5_UpdateDecision ==
    LET a == get_version(pre, MainPath)
        needed == /\ latest # NoneVal
                  /\ (a = NoneVal \/ LexGreater(latest, a))
    IN  /\ pc \in StagingPcs => needed
        /\ (pc = "idle" /\ op = "download" /\ ret = "True") =>
              needed /\ IsDir(fs, NextPath)
        /\ (pc = "idle" /\ op = "download" /\ ret = "False") =>
              ~needed /\ fs = pre
        /\ (pc = "idle" /\ op = "download" /\ ret = "raised" /\ fs # pre) =>
              needed

\* installed v10, latest v2: greater as a string, and staged
C5_Witness ==
    /\ pc = "idle"
    /\ op = "download"
    /\ ret = "True"
    /\ get_version(pre, MainPath) = <<"v", "1", "0">>
    /\ latest = <<"v", "2">>

\* C6: after download_updates_if_available has returned True, next/.version
\* is the latest version and every remote file is under next/ with its
\* fetched body; after the restart and apply_pending_updates_if_available,
\* the live tree has that version and those files and next/ is gone.
C6_EndToEnd ==
    /\ (pc = "idle" /\ op = "download" /\ ret = "True") =>
          /\ get_version(fs, NextPath) = latest
          /\ \A p \in RemoteFiles(remote) :
                /\ IsFile(fs, NextPath \o Slash \o Rel(p))
                /\ fs[NextPath \o Slash \o Rel(p)].data = fetched[p]
    /\ (pc = "idle" /\ op = "apply" /\ staged # NoStage) =>
          /\ get_version(fs, MainPath) = staged.ver
          /\ \A p \in RemoteFiles(remote) :
                /\ IsFile(fs, MainPath \o Slash \o Rel(p))
                /\ fs[MainPath \o Slash \o Rel(p)].data = staged.files[p]
          /\ ~path_exists(fs, NextPath)

-----------------------------------------------------------------------------
(* What the design asks of the transport client and the response reader *)

RequestEnded == h.pc \in {"returned", "raised"}

\* a header line that declares chunked transfer-encoding; field names are
\* case-insensitive in HTTP
DeclaresChunked(l) ==
    /\ Head(l) \in {"Transfer-Encoding:", "transfer-encoding:"}
    /\ \E k \in 1..Len(l) : l[k] = "chunked"

IsAccess(call) == call \in {"content", "text", "json"}

\* C7: for every answer with a status in [300,399], whatever its headers,
\* request fails with the redirect error, returns no Response and reads no
\* byte of the body.
C7_RedirectRejected ==
    (/\ RequestEnded
     /\ h.wellformed
     /\ 300 <= h.status
     /\ h.status <= 399
     /\ h.err # "OSError")
    => /\ h.pc = "raised"
       /\ h.err = "NotImplementedError"
       /\ h.reads = 0

\* C8: for every answer whose headers declare chunked transfer-encoding,
\* request returns no Response and reads no byte of the body, and for a 2xx
\* status the error is the unsupported-encoding error (ValueError).
C8_ChunkedRejected ==
    (/\ RequestEnded
     /\ \E k \in 1..Len(h.hdrs) : DeclaresChunked(h.hdrs[k])
     /\ h.err # "OSError")
    => /\ h.pc = "raised"
       /\ h.reads = 0
       /\ (200 <= h.status /\ h.status <= 299) => h.err = "ValueError"

\* C9: every socket request opened is handed to the Response it returns, or
\* is closed when request raises.
C9_SocketClosedOrHandedOver ==
    /\ h.pc = "raised" => h.sock \in {"none", "closed"}
    /\ (h.pc = "returned" /\ h.calls = 0) => (h.raw = "sock" /\ h.sock = "open")

\* C10 as claimed: the body is read exactly once, on the first content
\* access; the socket is closed right after; every later access returns the
\* bytes of the first, also with a close() in between.
C10_ReadOnceCachedAlways ==
    h.pc = "returned" =>
       /\ h.acc = 0 => h.reads = 0
       /\ h.acc >= 1 => h.reads = 1
       /\ h.reads = 1 => h.sock = "closed"
       /\ (IsAccess(h.lastCall) /\ h.first \in Bodies) => h.last = h.first

\* C10 as amended: before close() is called the body is read exactly once,
\* on the first content access, the socket is closed right after that read
\* whether it succeeded or raised, and every later access before close()
\* returns the bytes of a first access that succeeded; an access after
\* close() raises and reads nothing from the socket.
C10_ReadOnceCachedUntilClose ==
    h.pc = "returned" =>
       /\ h.reads <= 1
       /\ (h.acc = 0 \/ h.closedAtFirst) => h.reads = 0
       /\ (h.acc >= 1 /\ ~h.closedAtFirst) => h.reads = 1
       /\ h.reads = 1 => (h.sock = "closed" /\ h.raw = "None")
       /\ (IsAccess(h.lastCall) /\ ~h.closed /\ h.first \in Bodies) =>
             h.last = h.first
       /\ (IsAccess(h.lastCall) /\ h.closed) => h.last = <<"AttributeError">>

\* a second access, with no close() before it, got the bytes of the first
C10_Witness ==
    /\ h.pc = "returned"
    /\ h.acc >= 2
    /\ ~h.closed
    /\ IsAccess(h.lastCall)
    /\ h.first \in Bodies
    /\ h.last = h.first
    /\ h.reads = 1

\* C11: in any sequence of close() calls and content accesses on one
\* Response no close() raises, and once any of them has run the socket has
\* been closed exactly once, however many calls follow.
C11_CloseIdempotent ==
    h.pc = "returned" =>
       /\ h.calls = 0 => (h.closes = 0 /\ h.sock = "open")
       /\ h.calls >= 1 => (h.closes = 1 /\ h.sock = "closed" /\ h.raw = "None")
       /\ h.lastCall = "close" => h.last = <<"None">>

\* close() after the body was consumed and after an earlier close()
C11_Witness ==
    /\ h.pc = "returned"
    /\ h.lastCall = "close"
    /\ h.calls = MaxCalls
    /\ h.reads = 1
    /\ h.closedAtFirst = FALSE
    /\ h.acc = 1
    /\ h.closes = 1

-----------------------------------------------------------------------------
(* What the design asks of staging, of rmtree and of restarts *)

\* the positions of a staging run after next/ has been made
WalkPcs == {"daf_get", "daf_iter", "df_get", "df_write", "dl_marker",
            "dl_marker_write"}

\* C13: when an update is needed and next/ is there when
\* download_updates_if_available is called, the call raises before any
\* listing or file is fetched and before anything is written: the walk is
\* never entered and storage stays as it was.
C13_StaleStagingRefused ==
    LET a == get_version(pre, MainPath)
        needed == /\ latest # NoneVal
                  /\ (a = NoneVal \/ LexGreater(latest, a))
    IN  (op = "download" /\ path_exists(pre, NextPath)) =>
           /\ pc \notin WalkPcs
           /\ fs = pre
           /\ (pc = "idle" /\ needed) => ret = "raised"

\* a partial staging tree was there, an update was needed, and the call
\* raised
C13_Witness ==
    /\ op = "download"
    /\ pc = "idle"
    /\ ret = "raised"
    /\ latest = <<"v", "2">>
    /\ get_version(pre, MainPath) = <<"v", "1", "0">>
    /\ path_exists(pre, NextPath \o Slash \o <<"a.py">>)
    /\ ~path_exists(pre, NextPath \o Slash \o MarkerName)
    /\ fs = pre

\* C16: while a promotion is under way the staging tree stays as it was when
\* apply_pending_updates_if_available was called, and when power was lost
\* during a promotion the next call completes it: the live path holds the
\* staged tree with its marker and next/ is gone.
C16_PromotionResumes ==
    /\ pc \in {"ap_rm_main", "ap_rename"} =>
          /\ Subtree(fs, NextPath) = Subtree(pre, NextPath)
          /\ IsFile(fs, NextPath \o Slash \o MarkerName)
    /\ (op = "apply" /\ boot = "promotion") =>
          /\ IsFile(pre, NextPath \o Slash \o MarkerName)
          /\ pc \in {"ap_rm_main", "ap_rename", "idle"}
          /\ pc = "idle" =>
                /\ ret = "applied"
                /\ Subtree(fs, MainPath) = Subtree(pre, NextPath)
                /\ IsFile(fs, MainPath \o Slash \o MarkerName)
                /\ ~\E q \in DOMAIN fs : Under(q, NextPath)

\* power was lost when the live tree was removed in part, and the call at
\* the next boot promoted the staged tree
C16_Witness ==
    /\ op = "apply"
    /\ boot = "promotion"
    /\ pc = "idle"
    /\ ret = "applied"
    /\ path_exists(pre, MainPath \o Slash \o <<"old">>)
    /\ ~path_exists(pre, MainPath \o Slash \o MarkerName)
    /\ path_exists(fs, MainPath \o Slash \o MarkerName)

\* C19: whether apply_pending_updates_if_available finds no staging tree, a
\* complete one or one without marker, nothing is left of next/ when it
\* returns, and a call made right after it (a restart with nothing in
\* between) finds nothing pending and leaves storage as it is.
C19_ApplyConsumesStaging ==
    /\ (op = "apply" /\ pc = "idle" /\ ret # "raised") =>
          /\ ret \in {"no pending", "applied", "discarded"}
          /\ ~\E q \in DOMAIN fs : Under(q, NextPath)
    /\ (op = "apply" /\ boot = "apply returned") =>
          /\ pc = "idle"
          /\ ret = "no pending"
          /\ fs = pre

\* the call after a promotion of a staged release: nothing pending, the
\* live tree keeps the promoted version
C19_Witness ==
    /\ op = "apply"
    /\ boot = "apply returned"
    /\ pc = "idle"
    /\ ret = "no pending"
    /\ staged # NoStage
    /\ get_version(fs, MainPath) = staged.ver
    /\ live0 = FsLive(<<"v", "1", "0">>)

MarkerPath == NextPath \o Slash \o MarkerName

\* a step in which a fetch of a listing or of a file fails: the request or
\* the decoding raises, or the host answers with an error status
FetchFails ==
    /\ pc \in {"daf_get", "df_get"}
    /\ \/ ret' = "raised"
       \/ nerr' # nerr

\* C15: a step in which a listing or file fetch fails ends the staging run
\* with an error, with no next/.version on storage and the live tree as it
\* was; the apply_pending_updates_if_available of the next boot removes the
\* staging tree and leaves the live tree as it was.
C15_FetchFailureAborts ==
    /\ [][FetchFails =>
            /\ pc' = "idle"
            /\ ret' = "raised"
            /\ ~path_exists(fs', MarkerPath)
            /\ Subtree(fs', MainPath) = Subtree(pre, MainPath)]_vars
    /\ []((op = "apply" /\ pc = "idle" /\ boot = "staging raised") =>
            /\ ret = "discarded"
            /\ ~\E q \in DOMAIN fs : Under(q, NextPath)
            /\ Subtree(fs, MainPath) = Subtree(pre, MainPath))

\* C17: the marker is written only in a run whose fetches were all
\* answered with a success status: once next/.version has been opened by
\* line 98, no file of the run holds the body of an error answer.
C17_MarkerOnlyAfterSuccess ==
    (op = "download" /\ (pc = "dl_marker_write" \/ (pc = "idle" /\ ret = "True")))
    => \A p \in DOMAIN fetched : fetched[p] # ErrBody

\* C18: after a staging run that has returned True the staging tree is the
\* remote main directory: every remote file at its relative path with the
\* body fetched for it, every remote directory, the marker, nothing else.
C18_StagingMirrorsRemote ==
    (op = "download" /\ pc = "idle" /\ ret = "True") =>
       LET T == Subtree(fs, NextPath)
       IN  /\ DOMAIN T = {<<>>, Slash \o MarkerName}
                          \cup {Slash \o Rel(p) : p \in RemotePaths(remote)}
           /\ \A p \in RemoteFiles(remote) :
                 /\ Slash \o Rel(p) \in DOMAIN T
                 /\ T[Slash \o Rel(p)] = File(fetched[p])
           /\ \A p \in RemoteDirs(remote) :
                 /\ Slash \o Rel(p) \in DOMAIN T
                 /\ T[Slash \o Rel(p)] = Dir

RmRunning == pc \in {"ap_rm_main", "ap_rm_next"}

\* the directory the running or finished rmtree was called on
RmRoot == IF pc \in {"ap_rm_main", "ap_rename"} THEN MainPath ELSE NextPath

\* C14: rmtree returns on every tree; each path it removes lies in the tree
\* it was given, and a directory has no child left when it is removed; when
\* it has returned nothing of the tree is left, its root included, and
\* everything outside the tree is as it was.
C14_RmtreeRemovesTree ==
    /\ [][\A q \in (DOMAIN fs) \ (DOMAIN fs') :
            /\ RmRunning
            /\ Under(q, rstack[1])
            /\ fs[q].dir => Children(fs, q) = {}]_vars
    /\ [](~RmRunning =>
            fs = [q \in {r \in DOMAIN pre : ~Under(r, RmRoot)} |-> pre[q]])
    /\ <>(~RmRunning)

\* rmtree has returned from a tree with files MaxNest levels down
C14_Witness ==
    /\ ~RmRunning
    /\ \E root \in {MainPath, NextPath} :
          /\ IsFile(pre, SubDir(root, MaxNest) \o Slash \o <<"b.py">>)
          /\ ~path_exists(fs, root)
    /\ Cardinality(DOMAIN fs) = 4

-----------------------------------------------------------------------------
(* What the design asks of the fetches *)

\* C12: when get_latest_version returns, it returns None if the decoded
\* body has no tag_name and the tag_name otherwise, and the socket of its
\* response is closed.
C12_LatestVersion ==
    (pc = "idle" /\ op = "latest" /\ ret = "returned") =>
       /\ IsJson(h.first)
       /\ HasTag(h.first) => latest = tag_name(h.first)
       /\ ~HasTag(h.first) => latest = NoneVal
       /\ h.sock = "closed"
       /\ h.raw = "None"

\* get_latest_version has returned None for an answer without tag_name
C12_Witness ==
    /\ pc = "idle"
    /\ op = "latest"
    /\ ret = "returned"
    /\ h.first = NoTagBody
    /\ latest = NoneVal
    /\ h.sock = "closed"
    /\ h.calls = 1

\* C20: at most one socket is open at any time: that of a listing is closed
\* before its first entry is fetched, that of a file fetch before the next
\* fetch begins, also when the fetch has failed.
C20_OneSocketAtATime ==
    /\ OpenSockets <= 1
    /\ pc = "daf_iter" => OpenSockets = 0
    /\ (pc = "idle" /\ ret = "raised") => OpenSockets = 0

=============================================================================
